---- MODULE Spec2Model ----
(***************************************************************************)
(* Break scheduler of breaktimer-app (src/app/main/lib/breaks.ts).          *)
(*                                                                         *)
(* Time is the wall clock in whole seconds since the epoch (UTC); a Date   *)
(* or Moment is an integer and a null Date is NoDate.  The six module      *)
(* level variables of breaks.ts are the state; the pending setTimeout      *)
(* handles and notification click closures created by doBreak() are kept   *)
(* in the sequence warnings.  Every function of the source is an operator  *)
(* from a state record to a state record (field ret is the return value,   *)
(* field thrown an exception in flight, field sink the requests issued to  *)
(* the external collaborators).                                            *)
(***************************************************************************)
EXTENDS Integers, Sequences, FiniteSets, TLC

VARIABLES
    now,            \* the wall clock
    settings,       \* the snapshot getSettings() returns
    breakTime,      \* breaks.ts:13
    havingBreak,    \* breaks.ts:14
    postponedCount, \* breaks.ts:15
    idleStart,      \* breaks.ts:16
    lockStart,      \* breaks.ts:17
    lastTick,       \* breaks.ts:18
    warnings,       \* timers and click closures created by doBreak()
    sink,           \* requests issued by the last operation
    last            \* the last operation executed and what it observed

vars == <<now, settings, breakTime, havingBreak, postponedCount, idleStart,
          lockStart, lastTick, warnings, sink, last>>

---------------------------------------------------------------------------
(* Bounds of the model *)

\* seconds of wall-clock time explored after the initial instant
Horizon == 6
\* pre-break warnings raised in one behaviour
MaxWarnings == 2
\* longest gap between two ticks, in seconds
MaxGap == 3
\* largest postponeLimit explored
MaxPostponeLimit == 2
\* seconds of one-second ticks explored by the liveness specification
LiveHorizon == 16

(* Program constants *)

\* setTimeout(beginPopupBreak, 5000), in seconds
WarningDelay == 5

NoDate == 0 - 1

Gaps == 1..MaxGap

IdleStates == {"active", "idle", "locked", "unknown"}

---------------------------------------------------------------------------
(* Dates and durations *)

Dur(h, m, s) == [h |-> h, m |-> m, s |-> s]

\* (hours * 60 * 60 + minutes * 60 + seconds) || 1
getSeconds(date) ==
    LET n == (date.h * 60 * 60) + (date.m * 60) + date.s
    IN  IF n = 0 THEN 1 ELSE n

\* moment().add(h, 'hours').add(m, 'minutes').add(s, 'seconds')
momentAdd(t, date) == t + (date.h * 3600) + (date.m * 60) + date.s

\* moment#day(): Sunday 0 .. Saturday 6; the epoch was a Thursday
momentDay(t) == (4 + (t \div 86400)) % 7

\* moment().set('hours', h).set('minutes', m).set('seconds', 0)
momentSetTime(t, date) == (t - (t % 86400)) + (date.h * 3600) + (date.m * 60)

getIdleResetSeconds(cfg) == getSeconds(cfg.idleResetLength)

getBreakSeconds(cfg) == getSeconds(cfg.breakFrequency)

\* Number(((+(new Date()) - +since) / 1000).toFixed(0)), on whole seconds
secondsSince(t, since) == t - since

---------------------------------------------------------------------------
(* Calls to the external collaborators.  fault names the collaborator      *)
(* whose next call throws ("none": every call returns).                    *)

Faults == {"getSettings", "getSystemIdleState", "showNotification",
           "buildTray", "sendIpc"}

call(s, fault, name, requests) ==
    IF s.thrown THEN s
    ELSE IF fault = name THEN [s EXCEPT !.thrown = TRUE]
    ELSE [s EXCEPT !.sink = @ \cup requests]

\* the rest of a function body runs only while no exception is in flight
then(s, t) == IF s.thrown THEN s ELSE t

---------------------------------------------------------------------------
(* breaks.ts:61-89 *)
createIdleNotification(s, cfg, t, fault) ==
    LET a == call(s, fault, "getSettings", {})
    IN  IF ~cfg.idleResetEnabled THEN a
        ELSE IF cfg.idleResetNotification
             THEN call(a, fault, "showNotification", {"idleResetNotice"})
             ELSE a

(* breaks.ts:91-112 *)
createBreak(s, cfg, t, fault, isPostpone) ==
    LET a == call(s, fault, "getSettings", {})
        b == IF a.idleStart # NoDate
             THEN LET n == createIdleNotification(a, cfg, t, fault)
                  IN  then(n, [n EXCEPT !.idleStart = NoDate,
                                        !.postponedCount = 0])
             ELSE a
        freq == IF isPostpone THEN cfg.postponeLength ELSE cfg.breakFrequency
        c == [b EXCEPT !.breakTime = momentAdd(t, freq)]
    IN  then(a, then(b, call(c, fault, "buildTray", {"tray"})))

(* breaks.ts:114-125 *)
beginPopupBreak(s, cfg, t, fault) ==
    LET a == call(s, fault, "getSettings", {})
        b == [a EXCEPT !.breakTime = t]
        c == [b EXCEPT !.sink = @ \cup {"breakWindows"}]
    IN  then(a, then(c, IF cfg.gongEnabled
                        THEN call(c, fault, "sendIpc", {"gong"})
                        ELSE c))

\* mutant: the end of the break keeps the postpone count
endPopupBreakKeepsCount(s, cfg, t, fault) ==
    IF s.breakTime # NoDate
    THEN LET a == [s EXCEPT !.breakTime = NoDate,
                            !.havingBreak = FALSE]
             b == call(a, fault, "getSettings", {})
         IN  then(b, IF cfg.gongEnabled
                     THEN call(b, fault, "sendIpc", {"gong"})
                     ELSE b)
    ELSE s

\* mutant: the guard on breakTime is dropped
endPopupBreakUnguarded(s, cfg, t, fault) ==
    LET a == [s EXCEPT !.breakTime = NoDate,
                       !.havingBreak = FALSE,
                       !.postponedCount = 0]
        b == call(a, fault, "getSettings", {})
    IN  then(b, IF cfg.gongEnabled
                THEN call(b, fault, "sendIpc", {"gong"})
                ELSE b)

(* breaks.ts:127-142 *)
endPopupBreak(s, cfg, t, fault) ==
    IF s.breakTime # NoDate
    THEN LET a == [s EXCEPT !.breakTime = NoDate,
                            !.havingBreak = FALSE,
                            !.postponedCount = 0]
             b == call(a, fault, "getSettings", {})
         IN  then(b, IF cfg.gongEnabled
                     THEN call(b, fault, "sendIpc", {"gong"})
                     ELSE b)
    ELSE s

(* breaks.ts:166 *)
allowSkip(cfg) == cfg.notificationClick = "Skip"

\* mutant: the limit compared with <= in place of <
allowPostponeOffByOne(cfg, count) ==
    /\ cfg.notificationClick = "Postpone"
    /\ (cfg.postponeLimit = 0 \/ count <= cfg.postponeLimit)

(* breaks.ts:167-170; a postponeLimit of 0 is falsy: no limit *)
allowPostpone(cfg, count) ==
    /\ cfg.notificationClick = "Postpone"
    /\ (cfg.postponeLimit = 0 \/ count < cfg.postponeLimit)

(* breaks.ts:162: the timer handle and, once showNotification() returned,  *)
(* the click closure with the values it captured.  Field count is the      *)
(* value of postponedCount when the warning was raised.                    *)
Warning(cfg, t, count, shown) ==
    [timer         |-> "pending",
     due           |-> t + WarningDelay,
     allowSkip     |-> allowSkip(cfg),
     allowPostpone |-> allowPostpone(cfg, count),
     click         |-> IF shown THEN "waiting" ELSE "none",
     count         |-> count]

\* mutant: the click handler leaves the timer running
clearTimeoutForgotten(s, i) == s

(* clearTimeout(breakTimeout): a timer that has fired or was cleared stays so *)
clearTimeout(s, i) ==
    IF s.warnings[i].timer = "pending"
    THEN [s EXCEPT !.warnings[i].timer = "cleared",
                   !.warnings[i].due = NoDate]
    ELSE s

(* breaks.ts:149-159 *)
doBreakNotification(s, cfg, t, fault) ==
    LET a == call(s, fault, "showNotification", {"breakNotice"})
        b == IF cfg.gongEnabled THEN call(a, fault, "sendIpc", {"gong"}) ELSE a
        c == [b EXCEPT !.havingBreak = FALSE]
    IN  then(a, then(b, createBreak(c, cfg, t, fault, FALSE)))

(* breaks.ts:161-194 *)
doBreakPopup(s, cfg, t, fault) ==
    LET shown == fault # "showNotification"
        a == [s EXCEPT !.warnings =
                 Append(@, Warning(cfg, t, s.postponedCount, shown))]
    IN  call(a, fault, "showNotification", {"warning"})

(* breaks.ts:144-195 *)
doBreak(s, cfg, t, fault) ==
    LET a == [s EXCEPT !.havingBreak = TRUE, !.didBreak = TRUE]
        b == call(a, fault, "getSettings", {})
        c == IF cfg.notificationType = "Notification"
             THEN doBreakNotification(b, cfg, t, fault)
             ELSE b
        d == IF cfg.notificationType = "Popup"
             THEN doBreakPopup(c, cfg, t, fault)
             ELSE c
    IN  then(b, then(c, d))

(* a timer that fired or was cleared and a click closure that ran are     *)
(* gone: a warning stays while its timer is pending or its click can come  *)
release(s) ==
    [s EXCEPT !.warnings =
        SelectSeq(@, LAMBDA w : w.timer = "pending" \/ w.click = "waiting")]

(* breaks.ts:181-192: the click callback of warning i *)
onClick(s, cfg, t, fault, i) ==
    LET w == s.warnings[i]
        a == [s EXCEPT !.warnings[i].click = "done"]
    IN  IF w.allowSkip
        THEN LET b == clearTimeout(a, i)
             IN  release([b EXCEPT !.breakTime = NoDate,
                                   !.havingBreak = FALSE])
        ELSE IF w.allowPostpone
        THEN LET b == [a EXCEPT !.postponedCount = @ + 1]
                 c == clearTimeout(b, i)
                 d == [c EXCEPT !.havingBreak = FALSE]
             IN  release(createBreak(d, cfg, t, fault, TRUE))
        ELSE release(a)

(* the 5-second timer of warning i fires: breaks.ts:162 *)
onTimeout(s, cfg, t, fault, i) ==
    release(beginPopupBreak([s EXCEPT !.warnings[i].timer = "fired",
                                      !.warnings[i].due = NoDate],
                            cfg, t, fault))

---------------------------------------------------------------------------
(* breaks.ts:206-214: the table is keyed 1..7 *)
workingDays(cfg) ==
    [k \in 1..7 |->
        CASE k = 1 -> cfg.workingHoursMonday
          [] k = 2 -> cfg.workingHoursTuesday
          [] k = 3 -> cfg.workingHoursWednesday
          [] k = 4 -> cfg.workingHoursThursday
          [] k = 5 -> cfg.workingHoursFriday
          [] k = 6 -> cfg.workingHoursSaturday
          [] k = 7 -> cfg.workingHoursSunday]

(* breaks.ts:216: days[now.day()]; a missing key reads undefined (falsy) *)
isWorkingDay(cfg, t) ==
    LET days == workingDays(cfg)
        key  == momentDay(t)
    IN  IF key \in DOMAIN days THEN days[key] ELSE FALSE

(* breaks.ts:197-242, the value returned *)
inWorkingHours(cfg, t) ==
    IF ~cfg.workingHoursEnabled THEN TRUE
    ELSE IF ~isWorkingDay(cfg, t) THEN FALSE
    ELSE LET hoursFrom == momentSetTime(t, cfg.workingHoursFrom)
             hoursTo   == momentSetTime(t, cfg.workingHoursTo)
         IN  IF t < hoursFrom THEN FALSE
             ELSE IF t > hoursTo THEN FALSE
             ELSE TRUE

(* breaks.ts:197-242 *)
checkInWorkingHours(s, cfg, t, fault) ==
    LET a == call(s, fault, "getSettings", {})
    IN  then(a, [a EXCEPT !.ret = inWorkingHours(cfg, t)])

\* mutant: the call that first observes the lock reports idle
checkIdleCountsLockStart(s, cfg, t, fault, state) ==
    LET a == call(s, fault, "getSettings", {})
        b == call(a, fault, "getSystemIdleState", {})
        return(x, v) == [x EXCEPT !.ret = v, !.idleRets = Append(@, v)]
        c == IF state = "locked"
             THEN IF b.lockStart = NoDate
                  THEN return([b EXCEPT !.lockStart = t], TRUE)
                  ELSE return(b, secondsSince(t, b.lockStart)
                                     > getIdleResetSeconds(cfg))
             ELSE LET d == [b EXCEPT !.lockStart = NoDate]
                  IN  IF ~cfg.idleResetEnabled THEN return(d, FALSE)
                      ELSE return(d, state = "idle")
    IN  then(a, then(b, c))

(* breaks.ts:251-279; idleRets records the value of every return *)
checkIdle(s, cfg, t, fault, state) ==
    LET a == call(s, fault, "getSettings", {})
        b == call(a, fault, "getSystemIdleState", {})
        return(x, v) == [x EXCEPT !.ret = v, !.idleRets = Append(@, v)]
        c == IF state = "locked"
             THEN IF b.lockStart = NoDate
                  THEN return([b EXCEPT !.lockStart = t], FALSE)
                  ELSE return(b, secondsSince(t, b.lockStart)
                                     > getIdleResetSeconds(cfg))
             ELSE LET d == [b EXCEPT !.lockStart = NoDate]
                  IN  IF ~cfg.idleResetEnabled THEN return(d, FALSE)
                      ELSE return(d, state = "idle")
    IN  then(a, then(b, c))

\* mutant: the working hours are left out of the gating
checkShouldHaveBreakAnyHour(s, cfg, t, fault, state) ==
    LET a == call(s, fault, "getSettings", {})
        b == checkInWorkingHours(a, cfg, t, fault)
        c == checkIdle(b, cfg, t, fault, state)
    IN  then(a, then(b, then(c,
            [c EXCEPT !.ret = /\ ~c.havingBreak
                              /\ cfg.breaksEnabled
                              /\ ~c.ret])))

(* breaks.ts:281-287 *)
checkShouldHaveBreak(s, cfg, t, fault, state) ==
    LET a == call(s, fault, "getSettings", {})
        b == checkInWorkingHours(a, cfg, t, fault)
        c == checkIdle(b, cfg, t, fault, state)
    IN  then(a, then(b, then(c,
            [c EXCEPT !.ret = /\ ~c.havingBreak
                              /\ cfg.breaksEnabled
                              /\ b.ret
                              /\ ~c.ret])))

(* breaks.ts:289-295 *)
checkBreak(s, cfg, t, fault) ==
    IF t > s.breakTime THEN doBreak(s, cfg, t, fault) ELSE s

\* mutant: the manual trigger re-arms a full countdown
startBreakNowRearms(s, cfg, t, fault) ==
    [s EXCEPT !.breakTime = momentAdd(t, cfg.breakFrequency)]

(* breaks.ts:297-299 *)
startBreakNow(s, cfg, t, fault) == [s EXCEPT !.breakTime = t]

(* breaks.ts:308-310 *)
secondsSinceLastTick(s, t) ==
    IF s.lastTick # NoDate THEN secondsSince(t, s.lastTick) ELSE 0

\* mutant: the branch for a gap above the break period forgets lockStart
tickGapCorrectionKeepsLock(s, cfg, t, fault) ==
    LET gap == secondsSinceLastTick(s, t)
    IN  IF gap > getBreakSeconds(cfg)
        THEN s
        ELSE IF gap > getIdleResetSeconds(cfg)
        THEN LET a == IF s.idleStart = NoDate
                      THEN [s EXCEPT !.lockStart = NoDate,
                                     !.idleStart = s.lastTick]
                      ELSE s
             IN  createBreak(a, cfg, t, fault, FALSE)
        ELSE s

\* mutant: the branch for a gap above the idle reset records the idle
\* period and leaves the countdown alone
tickGapCorrectionNoRearm(s, cfg, t, fault) ==
    LET gap == secondsSinceLastTick(s, t)
    IN  IF gap > getBreakSeconds(cfg)
        THEN [s EXCEPT !.lockStart = NoDate]
        ELSE IF gap > getIdleResetSeconds(cfg)
        THEN IF s.idleStart = NoDate
             THEN [s EXCEPT !.lockStart = NoDate, !.idleStart = s.lastTick]
             ELSE s
        ELSE s

(* breaks.ts:318-335: the sleep/wake correction *)
tickGapCorrection(s, cfg, t, fault) ==
    LET gap == secondsSinceLastTick(s, t)
    IN  IF gap > getBreakSeconds(cfg)
        THEN [s EXCEPT !.lockStart = NoDate]
        ELSE IF gap > getIdleResetSeconds(cfg)
        THEN LET a == IF s.idleStart = NoDate
                      THEN [s EXCEPT !.lockStart = NoDate,
                                     !.idleStart = s.lastTick]
                      ELSE s
             IN  createBreak(a, cfg, t, fault, FALSE)
        ELSE s

(* breaks.ts:337-356; path names the branch taken *)
tickDecide(s, cfg, t, fault, state, shouldHaveBreak) ==
    IF ~shouldHaveBreak /\ ~s.havingBreak /\ s.breakTime # NoDate
    THEN LET a == checkIdle([s EXCEPT !.path = "clear"], cfg, t, fault, state)
             b == IF a.ret THEN [a EXCEPT !.idleStart = t] ELSE a
             c == [b EXCEPT !.breakTime = NoDate]
         IN  then(a, call(c, fault, "buildTray", {"tray"}))
    ELSE IF shouldHaveBreak /\ s.breakTime = NoDate
    THEN createBreak([s EXCEPT !.path = "create"], cfg, t, fault, FALSE)
    ELSE IF shouldHaveBreak
    THEN checkBreak([s EXCEPT !.path = "check"], cfg, t, fault)
    ELSE [s EXCEPT !.path = "fall"]

(* breaks.ts:302-356: the body of the try block *)
tickBody(s, cfg, t, fault, state) ==
    LET a == checkShouldHaveBreak(s, cfg, t, fault, state)
        shouldHaveBreak == a.ret
        b == tickGapCorrection([a EXCEPT !.should = shouldHaveBreak],
                               cfg, t, fault)
    IN  then(a, then(b, tickDecide(b, cfg, t, fault, state, shouldHaveBreak)))

\* mutant: the timestamp is written at the end of the try block
tickFinallyOnSuccessOnly(s, t) ==
    IF s.thrown THEN s ELSE [s EXCEPT !.lastTick = t]

(* breaks.ts:357-359: finally; an exception in flight stays in flight *)
tickFinally(s, t) == [s EXCEPT !.lastTick = t]

(* breaks.ts:301-360 *)
tick(s, cfg, t, fault, state) ==
    tickFinally(tickBody(s, cfg, t, fault, state), t)

(* breaks.ts:362-370 *)
initBreaks(s, cfg, t, fault) ==
    LET a == call(s, fault, "getSettings", {})
    IN  IF cfg.breaksEnabled THEN createBreak(a, cfg, t, fault, FALSE) ELSE a

---------------------------------------------------------------------------
(* Settings explored.  Durations are the hour/minute/second fields that    *)
(* new Date(setting) yields.                                               *)

WorkingWeek(cfg, daysOn) ==
    [cfg EXCEPT !.workingHoursMonday    = 1 \in daysOn,
                !.workingHoursTuesday   = 2 \in daysOn,
                !.workingHoursWednesday = 3 \in daysOn,
                !.workingHoursThursday  = 4 \in daysOn,
                !.workingHoursFriday    = 5 \in daysOn,
                !.workingHoursSaturday  = 6 \in daysOn,
                !.workingHoursSunday    = 7 \in daysOn]

\* breaks every 2 s, postpone 2 s, idle reset 1 s, working hours
\* Monday-Friday 09:00-17:00 (disabled)
BaseSettings ==
    [breaksEnabled         |-> TRUE,
     notificationType      |-> "Popup",
     notificationClick     |-> "Skip",
     postponeLimit         |-> 0,
     breakFrequency        |-> Dur(0, 0, 2),
     postponeLength        |-> Dur(0, 0, 2),
     idleResetLength       |-> Dur(0, 0, 1),
     idleResetEnabled      |-> TRUE,
     idleResetNotification |-> TRUE,
     gongEnabled           |-> TRUE,
     workingHoursEnabled   |-> FALSE,
     workingHoursFrom      |-> Dur(9, 0, 0),
     workingHoursTo        |-> Dur(17, 0, 0),
     workingHoursMonday    |-> TRUE,
     workingHoursTuesday   |-> TRUE,
     workingHoursWednesday |-> TRUE,
     workingHoursThursday  |-> TRUE,
     workingHoursFriday    |-> TRUE,
     workingHoursSaturday  |-> FALSE,
     workingHoursSunday    |-> FALSE]

\* popup mode with each click behaviour and postpone limit
Modes ==
    {[type |-> "Popup", click |-> c, limit |-> 0] :
              c \in {"Skip", "DoNothing"}}
    \cup {[type |-> "Popup", click |-> "Postpone", limit |-> n] :
              n \in 0..MaxPostponeLimit}

\* Monday 1970-01-05 00:00:00 UTC
Monday == 4 * 86400
\* the instants at which initBreaks() runs: two seconds before the working
\* hours open and before they close on a Monday, and a Saturday at noon
StartInstants ==
    {Monday + (9 * 3600) - 2,
     Monday + (17 * 3600) - 2,
     Monday + (5 * 86400) + (12 * 3600)}

StartOf(t) == CHOOSE s \in StartInstants : s <= t /\ t <= s + Horizon + 1

---------------------------------------------------------------------------
(* The state as the record the operators work on, and back *)

Fresh ==
    [breakTime |-> NoDate, havingBreak |-> FALSE, postponedCount |-> 0,
     idleStart |-> NoDate, lockStart |-> NoDate, lastTick |-> NoDate,
     warnings |-> <<>>, sink |-> {}, thrown |-> FALSE, ret |-> FALSE,
     didBreak |-> FALSE, idleRets |-> <<>>, path |-> "none",
     should |-> FALSE]

State ==
    [Fresh EXCEPT !.breakTime = breakTime, !.havingBreak = havingBreak,
                  !.postponedCount = postponedCount,
                  !.idleStart = idleStart, !.lockStart = lockStart,
                  !.lastTick = lastTick, !.warnings = warnings]

Becomes(r) ==
    /\ breakTime' = r.breakTime
    /\ havingBreak' = r.havingBreak
    /\ postponedCount' = r.postponedCount
    /\ idleStart' = r.idleStart
    /\ lockStart' = r.lockStart
    /\ lastTick' = r.lastTick
    /\ warnings' = r.warnings
    /\ sink' = r.sink

NoWarning ==
    [timer |-> "none", due |-> NoDate, allowSkip |-> FALSE,
     allowPostpone |-> FALSE, click |-> "none", count |-> 0]

NoOp ==
    [op |-> "none", w |-> NoWarning, idleState |-> "none", gap |-> 0,
     should |-> FALSE, didBreak |-> FALSE, path |-> "none",
     idleRets |-> <<>>, propagated |-> FALSE, ret |-> FALSE,
     preIdle |-> FALSE, forced |-> FALSE, popup |-> FALSE]

\* popup: the break windows that createBreakWindows() opened are on the
\* screen; they call endPopupBreak() when they close
Did(op, r) ==
    [NoOp EXCEPT !.op = op, !.didBreak = r.didBreak,
                 !.idleRets = r.idleRets, !.propagated = r.thrown,
                 !.preIdle = (idleStart # NoDate),
                 !.popup = IF "breakWindows" \in r.sink THEN TRUE
                           ELSE IF op = "endPopupBreak" THEN FALSE
                           ELSE last.popup]

---------------------------------------------------------------------------
(* Initial states: initBreaks() has run at one of the start instants *)

InitWith(cfg, t) ==
    /\ now = t
    /\ settings = cfg
    /\ LET r == initBreaks(Fresh, cfg, t, "none")
       IN  /\ breakTime = r.breakTime
           /\ havingBreak = r.havingBreak
           /\ postponedCount = r.postponedCount
           /\ idleStart = r.idleStart
           /\ lockStart = r.lockStart
           /\ lastTick = r.lastTick
           /\ warnings = r.warnings
           /\ sink = r.sink
    /\ last = [NoOp EXCEPT !.op = "initBreaks"]

\* working hours off, and on at each start instant
HoursCases ==
    {[on |-> FALSE, at |-> Monday + (9 * 3600) - 2]}
    \cup {[on |-> TRUE, at |-> t] : t \in StartInstants}

\* inline-notification mode under every gating: breaks on or off, idle
\* reset on or off, working hours off, opening, closing, or a disabled day
GateInit ==
    \E enabled \in BOOLEAN, idleReset \in BOOLEAN, hours \in HoursCases :
        InitWith([BaseSettings EXCEPT
                     !.notificationType = "Notification",
                     !.breaksEnabled = enabled,
                     !.idleResetEnabled = idleReset,
                     !.workingHoursEnabled = hours.on], hours.at)

\* inline-notification mode with an all-zero break frequency
ZeroInit ==
    InitWith([BaseSettings EXCEPT
                 !.notificationType = "Notification",
                 !.breakFrequency = Dur(0, 0, 0)], Monday + (9 * 3600) - 2)

\* popup mode under every click behaviour and postpone limit
PopupInit ==
    \E mode \in Modes :
        InitWith([BaseSettings EXCEPT
                        !.notificationType = mode.type,
                        !.notificationClick = mode.click,
                        !.postponeLimit = mode.limit],
                    Monday + (9 * 3600) - 2)

\* popup mode, click to skip
SkipInit ==
    InitWith([BaseSettings EXCEPT !.notificationType = "Popup",
                                  !.notificationClick = "Skip"],
             Monday + (9 * 3600) - 2)

Init == GateInit \/ ZeroInit \/ SkipInit

---------------------------------------------------------------------------
(* Actions *)

\* the periodic ticker calls tick(), gap seconds after the previous
\* operation: setInterval(tick, 1000) leaves at least a second between two
\* calls, and a longer gap is a machine that slept.  Clicks, timers and
\* public calls run within the second that follows a tick.
TickWith(gap, state, fault) ==
    /\ now + gap <= StartOf(now) + Horizon
    /\ now' = now + gap
    /\ LET r == tick(State, settings, now', fault, state)
       IN  /\ Len(r.warnings) <= MaxWarnings
           /\ Becomes(r)
           /\ last' = [Did("tick", r) EXCEPT
                          !.idleState = state,
                          !.gap = secondsSinceLastTick(State, now'),
                          !.should = r.should,
                          !.path = r.path,
                          !.forced = (last.op = "startBreakNow")]
    /\ UNCHANGED settings

Tick == \E gap \in Gaps, state \in IdleStates : TickWith(gap, state, "none")

\* a tick during which a call to one collaborator throws
TickFault ==
    \E gap \in Gaps, state \in IdleStates, fault \in Faults :
        TickWith(gap, state, fault)

\* the user clicks the pre-break warning notification i
Click ==
    \E i \in DOMAIN warnings :
        /\ warnings[i].click = "waiting"
        /\ LET r == onClick(State, settings, now, "none", i)
           IN  /\ Becomes(r)
               /\ last' = [Did("click", r) EXCEPT !.w = warnings[i]]
        /\ UNCHANGED <<now, settings>>

\* the 5-second timer of warning i fires
Timeout ==
    \E i \in DOMAIN warnings :
        /\ warnings[i].timer = "pending"
        /\ now >= warnings[i].due
        /\ LET r == onTimeout(State, settings, now, "none", i)
           IN  /\ Becomes(r)
               /\ last' = [Did("timeout", r) EXCEPT !.w = warnings[i]]
        /\ UNCHANGED <<now, settings>>

\* the break window closes the break
EndPopupBreak ==
    /\ LET r == endPopupBreak(State, settings, now, "none")
       IN  /\ Becomes(r)
           /\ last' = Did("endPopupBreak", r)
    /\ UNCHANGED <<now, settings>>

\* the tray menu starts a break now
StartBreakNow ==
    /\ LET r == startBreakNow(State, settings, now, "none")
       IN  /\ Becomes(r)
           /\ last' = Did("startBreakNow", r)
    /\ UNCHANGED <<now, settings>>

Next ==
    \/ Tick
    \/ Click
    \/ Timeout
    \/ EndPopupBreak
    \/ StartBreakNow

\* every gating in inline-notification mode, and popup mode with skip
Spec == Init /\ [][Next]_vars

\* a tick with the user at the keyboard
TickActive == \E gap \in Gaps : TickWith(gap, "active", "none")

NextPopup ==
    \/ TickActive
    \/ Click
    \/ Timeout
    \/ EndPopupBreak
    \/ StartBreakNow

\* every popup mode, with the user at the keyboard
SpecPopup == PopupInit /\ [][NextPopup]_vars

\* inline-notification mode with the base settings
NotifyInit ==
    InitWith([BaseSettings EXCEPT !.notificationType = "Notification"],
             Monday + (9 * 3600) - 2)

NextFault ==
    \/ Tick
    \/ TickFault
    \/ EndPopupBreak
    \/ StartBreakNow

\* inline-notification mode; the collaborators may throw during a tick
SpecFault == NotifyInit /\ [][NextFault]_vars

---------------------------------------------------------------------------
(* checkInWorkingHours() on its own: every weekday, instants around the    *)
(* opening and closing times, several working-day tables                   *)

DayTables == {{}, 1..5, 1..7, {6, 7}, {7}}

TimesOfDay ==
    {(9 * 3600) - 1, 9 * 3600, (9 * 3600) + 15, 17 * 3600, (17 * 3600) + 1}

HoursInit ==
    \E enabled \in BOOLEAN, daysOn \in DayTables, day \in 0..6,
       time \in TimesOfDay, from \in {Dur(9, 0, 0), Dur(9, 0, 30)} :
        /\ now = Monday + (day * 86400) + time
        /\ settings = WorkingWeek([BaseSettings EXCEPT
                                      !.workingHoursEnabled = enabled,
                                      !.workingHoursFrom = from], daysOn)
        /\ breakTime = NoDate
        /\ havingBreak = FALSE
        /\ postponedCount = 0
        /\ idleStart = NoDate
        /\ lockStart = NoDate
        /\ lastTick = NoDate
        /\ warnings = <<>>
        /\ sink = {}
        /\ last = NoOp

\* a caller asks whether the current instant is in the working hours
CheckInWorkingHours ==
    /\ LET r == checkInWorkingHours(State, settings, now, "none")
       IN  /\ Becomes(r)
           /\ last' = [Did("checkInWorkingHours", r) EXCEPT !.ret = r.ret]
    /\ UNCHANGED <<now, settings>>

SpecHours == HoursInit /\ [][CheckInWorkingHours]_vars

---------------------------------------------------------------------------
(* Properties *)

\* the due times of the timers still pending
PendingTimers(ws) ==
    LET p == SelectSeq(ws, LAMBDA w : w.timer = "pending")
    IN  [k \in 1..Len(p) |-> p[k].due]

\* the click closure of w was allowed to skip or to postpone
Allowed(w) == w.allowSkip \/ w.allowPostpone

\* the last operation was a click on a warning that doBreak() raised, in
\* click-to-postpone mode, with the postpone limit reached
LimitedClick(op) ==
    /\ op.op = "click"
    /\ settings.notificationType = "Popup"
    /\ settings.notificationClick = "Postpone"
    /\ settings.postponeLimit >= 1
    /\ op.w.count >= settings.postponeLimit

\* C1: in popup mode with click-to-postpone and a postpone limit N >= 1, a
\* click on a warning raised while postponedCount >= N changes none of
\* breakTime, postponedCount and havingBreak and leaves every pending
\* timer pending.
C1_PostponeLimitEnforced ==
    [][LimitedClick(last') =>
          /\ breakTime' = breakTime
          /\ postponedCount' = postponedCount
          /\ havingBreak' = havingBreak
          /\ PendingTimers(warnings') = PendingTimers(warnings)]_vars

\* with postponeLimit = 2 the click on the third warning came before its
\* timer fired and the timer is still pending
C1_Witness ==
    /\ LimitedClick(last)
    /\ settings.postponeLimit = 2
    /\ last.w.count = 2
    /\ last.w.timer = "pending"
    /\ postponedCount = 2
    /\ havingBreak
    /\ \E i \in DOMAIN warnings :
           warnings[i].timer = "pending" /\ warnings[i].click = "done"

\* C2: the 5-second timer of a warning never runs beginPopupBreak() once
\* the click callback of that warning has run with skip or postpone
\* allowed: no such warning keeps a pending timer, and no timer fires
\* for one.
C2_CancelledTimerNeverFires ==
    /\ \A i \in DOMAIN warnings :
           (warnings[i].click = "done" /\ Allowed(warnings[i]))
               => warnings[i].timer # "pending"
    /\ last.op = "timeout" => ~(last.w.click = "done" /\ Allowed(last.w))

\* a postpone click arrived while the timer was pending, after it was
\* due, and no timer is pending any more
C2_Witness ==
    /\ last.op = "click"
    /\ last.w.allowPostpone
    /\ last.w.timer = "pending"
    /\ now >= last.w.due
    /\ PendingTimers(warnings) = <<>>
    /\ ~havingBreak

\* C3: tick() always returns normally: no exception raised during a tick
\* propagates to the ticker.
C3_TickNeverThrows == last.op = "tick" => ~last.propagated

\* C4: every tick() leaves lastTick at the current time, on every exit
\* path, an exception included.
C4_LastTickAlwaysUpdated == last.op = "tick" => lastTick = now

\* a tick out of which an exception propagated has updated lastTick
C4_Witness == last.op = "tick" /\ last.propagated /\ lastTick = now

\* C5: with idleResetEnabled false every checkIdle() call returns false.
C5_NeverIdleWhenResetDisabled ==
    (last.op = "tick" /\ ~settings.idleResetEnabled)
        => \A k \in DOMAIN last.idleRets : ~last.idleRets[k]

\* the last operation was a tick whose gap since the previous tick lies
\* above the idle reset and not above the break period, and that began
\* with no idle period recorded
MidGapTick ==
    /\ last.op = "tick"
    /\ ~last.preIdle
    /\ last.gap > getIdleResetSeconds(settings)
    /\ last.gap <= getBreakSeconds(settings)

\* C6: after a tick with idleResetSeconds < gap <= breakSeconds that began
\* with no idle period recorded, idleStart is the previous lastTick and
\* breakTime is now + breakFrequency.
C6_GapRecordsIdleAndArms ==
    MidGapTick =>
        /\ idleStart = now - last.gap
        /\ breakTime = momentAdd(now, settings.breakFrequency)

\* C6 as amended: createBreak() consumes the idle period that began at the
\* previous lastTick (postponedCount is 0), so idleStart ends null, or now
\* when the tick then finds the user idle; breakTime ends at
\* now + breakFrequency when shouldHaveBreak or havingBreak holds and null
\* otherwise; no break is started.
C6_GapConsumesIdleAndRearms ==
    MidGapTick =>
        /\ idleStart =
              IF last.path = "clear" /\ last.idleRets[Len(last.idleRets)]
              THEN now ELSE NoDate
        /\ idleStart # now - last.gap
        /\ breakTime =
              IF last.should \/ havingBreak
              THEN momentAdd(now, settings.breakFrequency) ELSE NoDate
        /\ postponedCount = 0
        /\ ~last.didBreak

\* such a tick with the gating conditions met: the countdown is re-armed
\* and the idle period is gone
C6_Witness ==
    /\ MidGapTick
    /\ last.should
    /\ idleStart = NoDate
    /\ breakTime = momentAdd(now, settings.breakFrequency)
    /\ "idleResetNotice" \in sink

\* a tick whose gap since the previous tick exceeds the break period
LargeGapTick(op) ==
    /\ op.op = "tick"
    /\ op.gap > getBreakSeconds(settings)
    /\ op.idleState \in {"active", "idle", "locked"}

\* C7: a tick whose gap exceeds breakSeconds leaves idleStart unchanged
\* and lockStart null.
C7_LargeGapRecordsNothing ==
    [][LargeGapTick(last') =>
          /\ idleStart' = idleStart
          /\ lockStart' = NoDate]_vars

\* C7 as amended: such a tick never records the gap as an idle period.
\* idleStart is unchanged, except that it is set to now when the tick
\* clears the armed break with the system idle and idle reset enabled,
\* and cleared when the tick calls createBreak() (to arm a break, or to
\* re-arm after an inline-notification break); lockStart ends null,
\* except that it is now when the system is locked and the tick clears
\* the armed break.
C7_LargeGapRecordsNoGapIdle ==
    [][LargeGapTick(last') =>
          /\ idleStart' =
                IF /\ last'.path = "clear"
                   /\ last'.idleState = "idle"
                   /\ settings.idleResetEnabled
                THEN now'
                ELSE IF \/ last'.path = "create"
                        \/ /\ last'.didBreak
                           /\ settings.notificationType = "Notification"
                THEN NoDate
                ELSE idleStart
          /\ lockStart' =
                IF last'.path = "clear" /\ last'.idleState = "locked"
                THEN now' ELSE NoDate]_vars

\* a locked system after a gap above the break period: the tick clears the
\* armed break and records the lock anew
C7_Witness ==
    /\ LargeGapTick(last)
    /\ last.idleState = "locked"
    /\ last.path = "clear"
    /\ lockStart = now
    /\ breakTime = NoDate

\* C8: startBreakNow() sets breakTime to now and the next tick invokes
\* doBreak(), whatever the gating conditions.
C8_ForcedBreakAlwaysFires ==
    /\ last.op = "startBreakNow" => breakTime = now
    /\ (last.op = "tick" /\ last.forced) => last.didBreak

\* C8 as amended: startBreakNow() sets breakTime to now, and the tick that
\* follows it directly invokes doBreak() exactly when shouldHaveBreak
\* holds at that tick and its gap does not re-arm the countdown first.
C8_ForcedBreakFiresWhenGated ==
    /\ last.op = "startBreakNow" => breakTime = now
    /\ (last.op = "tick" /\ last.forced) =>
          (last.didBreak <=>
              /\ last.should
              /\ ~(/\ last.gap > getIdleResetSeconds(settings)
                   /\ last.gap <= getBreakSeconds(settings)))

\* the tick after startBreakNow() started the break, though the armed
\* time passed only a second ago
C8_Witness ==
    /\ last.op = "tick"
    /\ last.forced
    /\ last.didBreak
    /\ last.gap = 1
    /\ settings.breakFrequency # Dur(0, 0, 0)

\* C9: in inline-notification mode havingBreak is false in every state, and
\* a tick that ran doBreak() leaves breakTime strictly later than now.
C9_InlineBreakRearmsInFuture ==
    settings.notificationType = "Notification" =>
        /\ ~havingBreak
        /\ (last.op = "tick" /\ last.didBreak) => breakTime > now

\* today's flag of the working-hours settings, by the weekday of t
WeekdayFlag(cfg, t) ==
    CASE momentDay(t) = 0 -> cfg.workingHoursSunday
      [] momentDay(t) = 1 -> cfg.workingHoursMonday
      [] momentDay(t) = 2 -> cfg.workingHoursTuesday
      [] momentDay(t) = 3 -> cfg.workingHoursWednesday
      [] momentDay(t) = 4 -> cfg.workingHoursThursday
      [] momentDay(t) = 5 -> cfg.workingHoursFriday
      [] momentDay(t) = 6 -> cfg.workingHoursSaturday

\* C10: with working hours enabled checkInWorkingHours() returns true
\* exactly when today's weekday flag is on and from <= now <= to, on each
\* of the seven weekdays; with the feature off it returns true.
C10_WorkingHoursEveryWeekday ==
    last.op = "checkInWorkingHours" =>
        (last.ret <=>
            \/ ~settings.workingHoursEnabled
            \/ /\ WeekdayFlag(settings, now)
               /\ momentSetTime(now, settings.workingHoursFrom) <= now
               /\ now <= momentSetTime(now, settings.workingHoursTo))

\* the instant t lies on a weekday whose flag is off, or before the opening
\* or after the closing time of its day
OutsideWorkingHours(cfg, t) ==
    \/ ~WeekdayFlag(cfg, t)
    \/ t < momentSetTime(t, cfg.workingHoursFrom)
    \/ t > momentSetTime(t, cfg.workingHoursTo)

\* C11: a tick that runs with working hours enabled, at an instant on a
\* disabled weekday or outside from..to, and with havingBreak false, ends
\* with breakTime null, whatever the state before and whatever the gap.
C11_NoBreakArmedOutsideHours ==
    [][(/\ last'.op = "tick"
        /\ settings.workingHoursEnabled
        /\ OutsideWorkingHours(settings, now')
        /\ ~havingBreak) => breakTime' = NoDate]_vars

\* on the disabled Saturday, with breaks enabled: a tick whose gap lies
\* above the idle reset re-armed the countdown and then cleared it
C11_Witness ==
    /\ last.op = "tick"
    /\ settings.workingHoursEnabled
    /\ settings.breaksEnabled
    /\ momentDay(now) = 6
    /\ OutsideWorkingHours(settings, now)
    /\ last.gap = 2
    /\ last.path = "clear"
    /\ breakTime = NoDate

\* C12: endPopupBreak() called while breakTime is null changes none of
\* breakTime, havingBreak, postponedCount, idleStart, lockStart and
\* lastTick, cancels no timer and sends no request to the presentation
\* sink.
C12_EndWithoutBreakIsNoOp ==
    [][(last'.op = "endPopupBreak" /\ breakTime = NoDate) =>
          /\ UNCHANGED <<breakTime, havingBreak, postponedCount, idleStart,
                         lockStart, lastTick, warnings>>
          /\ sink' = {}]_vars

\* endPopupBreak() found no break armed while the 5-second timer of a
\* warning was pending: the timer is still pending and no gong was played
C12_Witness ==
    /\ last.op = "endPopupBreak"
    /\ settings.gongEnabled
    /\ sink = {}
    /\ breakTime = NoDate
    /\ PendingTimers(warnings) # <<>>

\* a tick that found the system locked and, since the gap was above the
\* break period or above the idle reset with no idle period recorded,
\* cleared lockStart before it decided
LockClearedByGap(op) ==
    \/ op.gap > getBreakSeconds(settings)
    \/ /\ op.gap > getIdleResetSeconds(settings)
       /\ ~op.preIdle

\* C13: checkIdle() returns false on a call that finds the system locked
\* with lockStart null, under every idle-reset setting: in a tick that
\* begins with lockStart null every checkIdle() call returns false and no
\* idle period is recorded, and a second call made after the gap
\* correction cleared lockStart returns false.
C13_FirstLockNeverIdle ==
    [][(last'.op = "tick" /\ last'.idleState = "locked") =>
          /\ lockStart = NoDate =>
                /\ \A k \in DOMAIN last'.idleRets : ~last'.idleRets[k]
                /\ idleStart' \in {idleStart, NoDate}
          /\ (Len(last'.idleRets) = 2 /\ LockClearedByGap(last')) =>
                ~last'.idleRets[2]]_vars

\* a tick one second after the previous one found the system locked for
\* the first time (lockStart is now): the call in checkShouldHaveBreak() and
\* the call made while the armed break was cleared both returned false
C13_Witness ==
    /\ last.op = "tick"
    /\ last.idleState = "locked"
    /\ settings.idleResetEnabled
    /\ last.gap = 1
    /\ lockStart = now
    /\ last.path = "clear"
    /\ last.idleRets = <<FALSE, FALSE>>
    /\ idleStart = NoDate

\* the step is an endPopupBreak() that found a break armed
EndActs == last'.op = "endPopupBreak" /\ breakTime # NoDate

\* the step ran a createBreak() that found an idle period recorded: the
\* one a tick records for a gap above the idle reset, or one recorded
\* before the step and gone after it
IdleFound ==
    \/ /\ last'.op = "tick"
       /\ last'.gap > getIdleResetSeconds(settings)
       /\ last'.gap <= getBreakSeconds(settings)
    \/ /\ last'.op \in {"tick", "click"}
       /\ idleStart # NoDate
       /\ idleStart' = NoDate

\* C14: postponedCount is 0 right after doBreak() started a break, after
\* beginPopupBreak() opened the popup, after an endPopupBreak() that found
\* a break armed, and after a createBreak() that found an idle period
\* recorded.
C14_CountZeroAfterStartEndIdle ==
    [][/\ (last'.op = "tick" /\ last'.didBreak) => postponedCount' = 0
       /\ "breakWindows" \in sink' => postponedCount' = 0
       /\ EndActs => postponedCount' = 0
       /\ IdleFound => postponedCount' = 0]_vars

\* C14 as amended: postponedCount is 0 right after an endPopupBreak() that
\* found a break armed and after a createBreak() that found an idle period
\* recorded; doBreak() in popup mode and beginPopupBreak() leave it as it
\* was.
C14_CountZeroAfterEndAndIdle ==
    [][/\ EndActs => postponedCount' = 0
       /\ IdleFound => postponedCount' = 0
       /\ (/\ last'.op = "tick"
           /\ last'.didBreak
           /\ settings.notificationType = "Popup") =>
              postponedCount' = postponedCount
       /\ "breakWindows" \in sink' => postponedCount' = postponedCount]_vars

\* endPopupBreak() ended a break and played the gong while a warning raised
\* after one postpone was still live: postponedCount is back to 0
C14_Witness ==
    /\ last.op = "endPopupBreak"
    /\ "gong" \in sink
    /\ postponedCount = 0
    /\ \E i \in DOMAIN warnings : warnings[i].count = 1

\* C15: while a popup break is presented, from the beginPopupBreak() that
\* opened the break windows to the endPopupBreak() that closes them,
\* havingBreak stays true: no tick, click on a warning or startBreakNow()
\* sets it to false.
C15_HavingBreakWhilePopupOpen ==
    [][(/\ last.popup
        /\ havingBreak
        /\ last'.op # "endPopupBreak") => havingBreak']_vars

\* C16: a tick whose gap since the previous tick exceeds idleResetSeconds
\* starts no break: doBreak() is not invoked in it, even when the armed
\* breakTime lies in the past.
C16_NoBreakAfterSleep ==
    (last.op = "tick" /\ last.gap > getIdleResetSeconds(settings))
        => ~last.didBreak

\* C17: with a postponeLimit N >= 1, postponedCount <= N in every
\* reachable state, whenever the click callbacks of the warnings run.
C17_PostponedCountWithinLimit ==
    settings.postponeLimit >= 1 => postponedCount <= settings.postponeLimit

\* C18: the 5-second timer of a warning runs beginPopupBreak() only while
\* havingBreak is true: no timer is pending in a state with havingBreak
\* false, and havingBreak is true when a timer has fired.
C18_TimerOnlyWhileHavingBreak ==
    /\ ~havingBreak => PendingTimers(warnings) = <<>>
    /\ last.op = "timeout" => havingBreak

\* the tick op found the user idle: its first checkIdle() returned true
IdleTick(op) ==
    /\ op.op = "tick"
    /\ op.idleRets # <<>>
    /\ op.idleRets[1]

\* C19: while checkIdle() is true on every tick and an idle period is
\* recorded, idleStart is not replaced by a later time and no idle-reset
\* notice is shown: a tick that finds the user idle, after a tick that
\* found the user idle and with idleStart recorded, leaves idleStart as it
\* is and shows no idle-reset notice.
C19_IdleStartKeptWhileIdle ==
    [][(/\ IdleTick(last)
        /\ idleStart # NoDate
        /\ IdleTick(last')) =>
          /\ idleStart' = idleStart
          /\ "idleResetNotice" \notin sink']_vars

---------------------------------------------------------------------------
(* The ticker alone: setInterval(tick, 1000) calls tick() every second    *)
(* with the user at the keyboard, the timers of the warnings fire, and    *)
(* the break windows close the break they show.  Breaks are enabled and   *)
(* every instant lies in the working hours of the settings.               *)

\* Monday and Sunday (1970-01-11) at noon
LiveInstants == {Monday + (12 * 3600), Monday + (6 * 86400) + (12 * 3600)}

LiveStartOf(t) ==
    CHOOSE s \in LiveInstants : s <= t /\ t <= s + LiveHorizon + 1

\* inline-notification mode and every popup mode
LiveModes == Modes \cup {[type |-> "Notification", click |-> "Skip",
                          limit |-> 0]}

\* working hours off, or on for all seven days from 09:00 to 17:00
LiveInit ==
    \E mode \in LiveModes, hours \in BOOLEAN, t \in LiveInstants,
       freq \in {Dur(0, 0, 0), Dur(0, 0, 2)} :
        InitWith(WorkingWeek([BaseSettings EXCEPT
                                 !.notificationType = mode.type,
                                 !.notificationClick = mode.click,
                                 !.postponeLimit = mode.limit,
                                 !.breakFrequency = freq,
                                 !.workingHoursEnabled = hours], 1..7), t)

\* a second passes within the seconds explored
ClockAdvances ==
    /\ now + 1 <= LiveStartOf(now) + LiveHorizon
    /\ now' = now + 1

\* the ticker calls tick() one second after the previous call
TickEverySecond ==
    /\ ClockAdvances
    /\ LET r == tick(State, settings, now', "none", "active")
       IN  /\ Becomes(r)
           /\ last' = [Did("tick", r) EXCEPT
                          !.idleState = "active",
                          !.gap = secondsSinceLastTick(State, now'),
                          !.should = r.should,
                          !.path = r.path]
    /\ UNCHANGED settings

\* the break windows on the screen end their break
BreakWindowEnds ==
    /\ last.popup
    /\ EndPopupBreak

NextLive ==
    \/ TickEverySecond
    \/ Timeout
    \/ BreakWindowEnds

\* the interval timer and the one-shot timers of the event loop fire: the
\* clock advances only in TickEverySecond, which is enabled whenever
\* ClockAdvances is, so fairness of the clock is fairness of the ticker
SpecLive ==
    /\ LiveInit
    /\ [][NextLive]_vars
    /\ WF_now(ClockAdvances)
    /\ WF_vars(Timeout)

\* ticks that a one-second ticker needs to arm a break and pass breakTime
BreakWithin(cfg) == getBreakSeconds(cfg) + 2

\* breaks are enabled, now lies in the working hours of the settings, no
\* break is going on, and the ticks explored leave room for n more seconds
Waiting(n) ==
    /\ settings.breaksEnabled
    /\ ~settings.workingHoursEnabled \/ ~OutsideWorkingHours(settings, now)
    /\ ~havingBreak
    /\ now + n <= LiveStartOf(now) + LiveHorizon

BreakEventuallyStartsOffSunday ==
    /\ (/\ momentDay(now) # 0 \/ ~settings.workingHoursEnabled
        /\ Waiting(BreakWithin(settings)))
          ~> (last.op = "tick" /\ last.didBreak)
    /\ (/\ momentDay(now) # 0 \/ ~settings.workingHoursEnabled
        /\ settings.notificationType = "Popup"
        /\ Waiting(BreakWithin(settings) + WarningDelay))
          ~> (last.op = "timeout" /\ "breakWindows" \in sink)

====
